---- MODULE Spec2Model ----
(***************************************************************************)
(* Model of gen_rdfc_pattern.py: the rdFC pattern of a 5-minute EEG epoch  *)
(* of an electrode triplet and its match score with three reference        *)
(* patterns.                                                               *)
(*                                                                         *)
(* Four machines share the module:                                         *)
(*   SpecMain    main / processTriplet / genPatternAndScore control flow,  *)
(*               the module global NOTCH_FREQUENCY, array shapes, stdout;  *)
(*   SpecShape   the array shapes of getPattern's loop, order by order;    *)
(*   SpecPattern getPattern on sample values;                              *)
(*   SpecScore   getNormalizedVector and getMatchScore on pattern values.  *)
(* Real numbers are fixed point: a correlation r is the integer            *)
(* trunc(r * Scale), a normalized component v is trunc(v * VecScale), and  *)
(* NaN is the string "NaN".                                                *)
(***************************************************************************)
EXTENDS Integers, Sequences, FiniteSets, TLC

VARIABLES
    NOTCH_FREQUENCY,  \* the module global read by filterSignalList
    pc,               \* position of the running invocation, "idle" between two
    args,             \* the arguments of the running invocation
    signals,          \* processTriplet's local: the loaded array
    referenceVecs,    \* processTriplet's local: the normalized reference patterns
    out,              \* what the running invocation has printed
    trace,            \* the functions the running invocation has entered
    result,           \* (pattern, scores) of the running invocation, or NoResult
    raised,           \* the exception that ended the running invocation, or "none"
    notchAtEntry,     \* NOTCH_FREQUENCY when the running invocation began
    runs,             \* the completed runs of genPatternAndScore
    calls,            \* number of invocations begun
    \* getPattern, array shapes only (SpecShape)
    gpSampleRate,     \* the sampleRate argument
    gpSignalsShape,   \* signals.shape
    valsShape,        \* vals.shape
    order,            \* the loop variable, 0-based; NUM_ORDERS once the loop is over
    patternCols,      \* the columns of pattern written so far
    numRolls,         \* how many times the rolling step has completed
    shapeLog,         \* vals.shape at each order begun, in order
    gpPc,             \* "call", "loop", "returned", or the exception raised
    \* getPattern on sample values (SpecPattern)
    pvSampleRate,     \* the sampleRate argument
    pvSignals,        \* the signals argument of the running call
    vals,             \* the series of the current order
    pattern,          \* the pattern matrix being filled, pattern[row][order + 1]
    pvOrder,          \* the loop variable, 0-based
    seriesLog,        \* vals at each order begun by the running call
    returned,         \* the patterns returned by the calls so far
    pvPc,             \* "call", "loop", "returned", or the exception raised
    \* loadReferencePatterns and genPatternAndScore from line 127 on (SpecScore)
    refPatterns,      \* the three reference pattern files, as loaded
    gsReferenceVecs,  \* referenceVecs
    gsPattern,        \* pattern, as getPattern returned it
    patternArg,       \* the array gsPattern was when getPattern returned it
    patternVec,       \* patternVec
    scores,           \* scores
    refVecIdx,        \* the loop variable of lines 129-130, 0-based
    gsPc              \* "load", "normalize", "score", "returned"

mainVars == <<NOTCH_FREQUENCY, pc, args, signals, referenceVecs, out, trace,
              result, raised, notchAtEntry, runs, calls>>

shapeVars == <<gpSampleRate, gpSignalsShape, valsShape, order, patternCols,
               numRolls, shapeLog, gpPc>>

patternVars == <<pvSampleRate, pvSignals, vals, pattern, pvOrder, seriesLog,
                 returned, pvPc>>

scoreVars == <<refPatterns, gsReferenceVecs, gsPattern, patternArg, patternVec,
               scores, refVecIdx, gsPc>>

vars == <<mainVars, shapeVars, patternVars, scoreVars>>

----------------------------------------------------------------------------
(* Program constants.                                                      *)

NUM_ORDERS == 5

EEG_DURATION_SECS == 5 * 60

\* NOTCH_FREQUENCY = 50.0 at import
InitialNotch == 50

\* bounds of the model
MaxCalls == 2

\* SpecShape: largest sampleRate, and largest column count tried besides
\* sampleRate * EEG_DURATION_SECS
MaxRate == 6

MaxCols == 14

\* fixed point: a correlation r is held as trunc(r * Scale)
Scale == 16

\* SpecPattern: the input rows are SampleRow(seed, n), seed in 0..MaxSeed, of
\* n in {MaxPatLen - 1, MaxPatLen} samples in 0..MaxSample, and sampleRate
\* is in 2..MaxPatRate
MaxSeed == 5

MaxSample == 4

MaxPatLen == 12

MaxPatRate == 3

\* fixed point: a component v of a normalized vector is held as
\* trunc(v * VecScale), a match score s as s * VecScale^2
VecScale == 1000

\* SpecScore: the pattern is PatternOf(seed, NUM_ORDERS), seed in
\* 0..MaxQuerySeed, and each reference pattern PatternOf(seed, columns),
\* seed in 0..MaxRefSeed
MaxQuerySeed == 26

MaxRefSeed == 2

----------------------------------------------------------------------------
(* SpecMain: inputs.                                                       *)

\* sampling rates given on the command line; 100 is too low for the filters
SampleRates == {100, 200}

NotchArgs == {50, 60, 55}

\* an input file: a well-formed numeric grid of rows x cols numbers
InputFiles ==
    [id : {"f"}, rows : {1, 2, 3},
     cols : {1, 3} \cup {r * EEG_DURATION_SECS : r \in SampleRates}]

\* np.loadtxt (ndmin=0) squeezes axes of length one: the shape of the array
\* it returns for a rows x cols grid
loadtxtShape(rows, cols) ==
    IF rows = 1 /\ cols = 1 THEN <<>>
    ELSE IF rows = 1 THEN <<cols>>
    ELSE IF cols = 1 THEN <<rows>>
    ELSE <<rows, cols>>

loadtxt(file) == [id |-> file.id, shape |-> loadtxtShape(file.rows, file.cols)]

\* loadReferencePatterns: the three reference files, each normalized
loadReferencePatterns ==
    [i \in 1..3 |-> <<"getNormalizedVector", <<"refPattern", i>>>>]

\* filterSignalList's two filter designs, as their design parameters.
\* Frequencies are relative to Nyquist, in hundredths over sampleRate.
BandpassDesign(sampleRate) ==
    [wp |-> <<2 * 50, 2 * 7000>>, ws |-> <<2 * 1, 2 * 9000>>,
     den |-> 100 * sampleRate, gpass |-> <<1, 10>>, gstop |-> 20]

NotchDesign(f0, sampleRate) == [w0 |-> <<2 * f0, sampleRate>>, Q |-> 30]

\* scipy rejects a digital design whose edge frequencies are not inside (0, 1)
DesignFails(f0, sampleRate) ==
    \/ sampleRate <= 0
    \/ BandpassDesign(sampleRate).ws[2] >= BandpassDesign(sampleRate).den
    \/ 2 * f0 >= sampleRate

\* filterSignalList writing the filtered rows into signalArr itself
filterSignalList_InPlace(signalArr, sampleRate, notch) ==
    [filtered |-> [id |-> signalArr.id, bandpass |-> BandpassDesign(sampleRate),
                   notch |-> NotchDesign(notch, sampleRate)],
     signalArr |-> [id |-> <<"filtered", signalArr.id>>, shape |-> signalArr.shape]]

\* the array filterSignalList returns (np.zeros(signalArr.shape), each row
\* the row of signalArr passed through the bandpass and then the notch
\* filter), and signalArr as the call leaves it
filterSignalList(signalArr, sampleRate, notch) ==
    [filtered |-> [id |-> signalArr.id, bandpass |-> BandpassDesign(sampleRate),
                   notch |-> NotchDesign(notch, sampleRate)],
     signalArr |-> signalArr]

\* genPatternAndScore's return value from the filtered signals
PatternAndScores(filtered, sampleRate, refVecs) ==
    [pattern |-> <<"getPattern", filtered, sampleRate>>,
     scores |-> [i \in 1..3 |->
                   <<"getMatchScore",
                     <<"getNormalizedVector", <<"getPattern", filtered, sampleRate>>>>,
                     refVecs[i]>>]]

----------------------------------------------------------------------------
(* SpecMain: the state machine.                                            *)

NoFile == [id |-> "none", rows |-> 0, cols |-> 0]

NoArgs == [inputFile |-> NoFile, samplingRate |-> 0, notchFrequency |-> 0]

\* a local not assigned yet
NoSignals == [id |-> "none", shape |-> <<>>]

NoResult == [pattern |-> <<>>, scores |-> <<>>]

\* the getPattern shape machine, not running
ShapeIdle ==
    /\ gpSampleRate = 0
    /\ gpSignalsShape = <<>>
    /\ valsShape = <<>>
    /\ order = 0
    /\ patternCols = 0
    /\ numRolls = 0
    /\ shapeLog = <<>>
    /\ gpPc = "idle"

MainIdle ==
    /\ NOTCH_FREQUENCY = InitialNotch
    /\ pc = "idle"
    /\ args = NoArgs
    /\ signals = NoSignals
    /\ referenceVecs = <<>>
    /\ out = <<>>
    /\ trace = <<>>
    /\ result = NoResult
    /\ raised = "none"
    /\ notchAtEntry = InitialNotch
    /\ runs = <<>>
    /\ calls = 0

\* the getPattern value machine, not running
PatternIdle ==
    /\ pvSampleRate = 0
    /\ pvSignals = <<>>
    /\ vals = <<>>
    /\ pattern = <<>>
    /\ pvOrder = 0
    /\ seriesLog = <<>>
    /\ returned = <<>>
    /\ pvPc = "idle"

\* the scoring machine, not running
ScoreIdle ==
    /\ refPatterns = <<>>
    /\ gsReferenceVecs = <<>>
    /\ gsPattern = <<>>
    /\ patternArg = <<>>
    /\ patternVec = <<>>
    /\ scores = <<>>
    /\ refVecIdx = 0
    /\ gsPc = "idle"

MainInit == MainIdle /\ ShapeIdle /\ PatternIdle /\ ScoreIdle

\* a new invocation starts with fresh locals and an empty output
Enter(a, fn, position) ==
    /\ pc = "idle"
    /\ calls < MaxCalls
    /\ calls' = calls + 1
    /\ args' = a
    /\ signals' = NoSignals
    /\ referenceVecs' = <<>>
    /\ out' = <<>>
    /\ trace' = <<fn>>
    /\ result' = NoResult
    /\ raised' = "none"
    /\ notchAtEntry' = NOTCH_FREQUENCY
    /\ pc' = position
    /\ UNCHANGED <<NOTCH_FREQUENCY, runs>>
    /\ UNCHANGED <<shapeVars, patternVars, scoreVars>>

\* main(): parseArguments has returned args
main ==
    \E f \in InputFiles, r \in SampleRates, n \in NotchArgs :
        Enter([inputFile |-> f, samplingRate |-> r, notchFrequency |-> n],
              "main", "main")

\* mainCheckNotch with the global assigned before the value is checked
mainCheckNotch_AssignFirst ==
    /\ pc = "main"
    /\ NOTCH_FREQUENCY' = args.notchFrequency
    /\ IF args.notchFrequency = 50 \/ args.notchFrequency = 60
       THEN /\ pc' = "processTriplet"
            /\ trace' = Append(trace, "processTriplet")
            /\ out' = out
       ELSE /\ out' = Append(out, <<"Error: notch frequency">>)
            /\ pc' = "idle"
            /\ UNCHANGED trace
    /\ UNCHANGED <<args, signals, referenceVecs, result, raised, notchAtEntry,
                   runs, calls>>
    /\ UNCHANGED <<shapeVars, patternVars, scoreVars>>

\* main(), lines 178-184: the notch frequency check
mainCheckNotch ==
    /\ pc = "main"
    /\ IF args.notchFrequency = 50 \/ args.notchFrequency = 60
       THEN /\ NOTCH_FREQUENCY' = args.notchFrequency
            /\ pc' = "processTriplet"
            /\ trace' = Append(trace, "processTriplet")
            /\ out' = out
       ELSE /\ out' = Append(out, <<"Error: notch frequency">>)
            /\ pc' = "idle"
            /\ UNCHANGED <<NOTCH_FREQUENCY, trace>>
    /\ UNCHANGED <<args, signals, referenceVecs, result, raised, notchAtEntry,
                   runs, calls>>
    /\ UNCHANGED <<shapeVars, patternVars, scoreVars>>

\* processTriplet(signalsFile, sampleRate) called by another caller than main
processTriplet ==
    \E f \in InputFiles, r \in SampleRates :
        Enter([inputFile |-> f, samplingRate |-> r, notchFrequency |-> 0],
              "processTriplet", "processTriplet")

\* processTriplet, lines 148-149: the reference patterns and the input file
processTripletLoad ==
    /\ pc = "processTriplet"
    /\ referenceVecs' = loadReferencePatterns
    /\ signals' = loadtxt(args.inputFile)
    /\ trace' = trace \o <<"loadReferencePatterns", "loadtxt">>
    /\ pc' = "checkRows"
    /\ UNCHANGED <<NOTCH_FREQUENCY, args, out, result, raised, notchAtEntry,
                   runs, calls>>
    /\ UNCHANGED <<shapeVars, patternVars, scoreVars>>

\* processTriplet, lines 150-152: signals.shape[0]
processTripletCheckRows ==
    /\ pc = "checkRows"
    /\ IF Len(signals.shape) < 1
       THEN /\ raised' = "IndexError"
            /\ pc' = "idle"
            /\ out' = out
       ELSE IF signals.shape[1] # 3
       THEN /\ out' = Append(out, <<"Error: rows">>)
            /\ pc' = "idle"
            /\ raised' = raised
       ELSE /\ pc' = "checkCols"
            /\ UNCHANGED <<out, raised>>
    /\ UNCHANGED <<NOTCH_FREQUENCY, args, signals, referenceVecs, trace, result,
                   notchAtEntry, runs, calls>>
    /\ UNCHANGED <<shapeVars, patternVars, scoreVars>>

\* processTriplet, lines 154-157: signals.shape[1]
processTripletCheckCols ==
    /\ pc = "checkCols"
    /\ IF Len(signals.shape) < 2
       THEN /\ raised' = "IndexError"
            /\ pc' = "idle"
            /\ out' = out
       ELSE IF signals.shape[2] # args.samplingRate * EEG_DURATION_SECS
       THEN /\ out' = Append(out, <<"Error: samples">>)
            /\ pc' = "idle"
            /\ raised' = raised
       ELSE /\ pc' = "genPatternAndScore"
            /\ UNCHANGED <<out, raised>>
    /\ UNCHANGED <<NOTCH_FREQUENCY, args, signals, referenceVecs, trace, result,
                   notchAtEntry, runs, calls>>
    /\ UNCHANGED <<shapeVars, patternVars, scoreVars>>

\* genPatternAndScore, lines 125-132, called at line 159
genPatternAndScore ==
    /\ pc = "genPatternAndScore"
    /\ IF DesignFails(NOTCH_FREQUENCY, args.samplingRate)
       THEN /\ raised' = "ValueError"
            /\ pc' = "idle"
            /\ trace' = trace \o <<"genPatternAndScore", "filterSignalList">>
            /\ UNCHANGED <<signals, result, runs>>
       ELSE LET f == filterSignalList(signals, args.samplingRate, NOTCH_FREQUENCY)
                res == PatternAndScores(f.filtered, args.samplingRate, referenceVecs)
            IN  /\ signals' = f.signalArr
                /\ result' = res
                /\ runs' = Append(runs,
                     [signals |-> signals, sampleRate |-> args.samplingRate,
                      referenceVecs |-> referenceVecs,
                      notch |-> NOTCH_FREQUENCY, result |-> res,
                      signalsAfter |-> f.signalArr,
                      referenceVecsAfter |-> referenceVecs])
                /\ trace' = trace \o <<"genPatternAndScore", "filterSignalList",
                                       "getPattern", "getNormalizedVector",
                                       "getMatchScore">>
                /\ pc' = "printResults"
                /\ raised' = raised
    /\ UNCHANGED <<NOTCH_FREQUENCY, args, referenceVecs, out, notchAtEntry, calls>>
    /\ UNCHANGED <<shapeVars, patternVars, scoreVars>>

\* printResults, lines 136-144, called at line 160
printResults ==
    /\ pc = "printResults"
    /\ out' = out \o <<<<"rdFC Pattern:">>>>
                  \o [i \in 1..5 |-> <<"Order", i, result.pattern>>]
                  \o <<<<"">>, <<"Match Scores for rdFC Pattern:">>>>
                  \o [i \in 1..3 |-> <<"Reference Pattern", i, result.scores[i]>>]
    /\ pc' = "idle"
    /\ UNCHANGED <<NOTCH_FREQUENCY, args, signals, referenceVecs, trace, result,
                   raised, notchAtEntry, runs, calls>>
    /\ UNCHANGED <<shapeVars, patternVars, scoreVars>>

MainNext ==
    \/ main
    \/ mainCheckNotch
    \/ processTriplet
    \/ processTripletLoad
    \/ processTripletCheckRows
    \/ processTripletCheckCols
    \/ genPatternAndScore
    \/ printResults

SpecMain == MainInit /\ [][MainNext]_vars

----------------------------------------------------------------------------
(* SpecShape: the shapes of getPattern's arrays, order by order.           *)

Min(a, b) == IF a < b THEN a ELSE b

Max(a, b) == IF a > b THEN a ELSE b

\* numFrames with the window counted one sample too long
NumFrames_OffByOne(cols, sampleRate) == cols - sampleRate

\* line 79: numFrames = vals.shape[1] - sampleRate + 1
NumFrames(cols, sampleRate) == cols - sampleRate + 1

\* line 81: vals_rw.corr() holds one 3 x 3 matrix per row of vals_pd, and
\* vals_pd has one row per column of vals
CorrFrames(cols) == cols

\* lines 84-86: the length of the slice [-k:] of n items; -0 is 0, so k = 0
\* takes them all
SliceLen(n, k) ==
    IF k = 0 THEN n
    ELSE IF k > 0 THEN Min(k, n)
    ELSE Max(n + k, 0)

\* lines 83-86: what the rolling step raises, or "none". np.zeros refuses a
\* negative dimension; assigning n values to a row of numFrames entries
\* needs n = numFrames, or n = 1 (broadcast).
RollRaises(cols, sampleRate) ==
    LET numFrames == NumFrames(cols, sampleRate)
        n == SliceLen(CorrFrames(cols), numFrames)
    IN  IF numFrames < 0 THEN "ValueError"
        ELSE IF n # numFrames /\ n # 1 THEN "ValueError"
        ELSE "none"

\* the column counts tried: short ones, and sampleRate * EEG_DURATION_SECS
ShapeCols(sampleRate) == (1..MaxCols) \cup {sampleRate * EEG_DURATION_SECS}

ShapeInit ==
    /\ MainIdle
    /\ PatternIdle
    /\ ScoreIdle
    /\ gpSampleRate \in 1..MaxRate
    /\ gpSignalsShape \in {<<rows, cols>> : rows \in {2, 3}, cols \in ShapeCols(gpSampleRate)}
    /\ valsShape = <<>>
    /\ order = 0
    /\ patternCols = 0
    /\ numRolls = 0
    /\ shapeLog = <<>>
    /\ gpPc = "call"

\* getPattern, lines 65-69: the assertion, pattern and vals
getPatternEnter ==
    /\ gpPc = "call"
    /\ IF gpSignalsShape[1] # 3
       THEN /\ gpPc' = "AssertionError"
            /\ UNCHANGED <<valsShape, shapeLog>>
       ELSE /\ gpPc' = "loop"
            /\ valsShape' = gpSignalsShape
            /\ shapeLog' = <<gpSignalsShape>>
    /\ UNCHANGED <<gpSampleRate, gpSignalsShape, order, patternCols, numRolls>>
    /\ UNCHANGED <<mainVars, patternVars, scoreVars>>

\* getPattern, lines 70-88: one iteration of the loop
getPatternOrder ==
    /\ gpPc = "loop"
    /\ order < NUM_ORDERS
    /\ patternCols' = patternCols + 1
    /\ IF order # NUM_ORDERS - 1
       THEN IF RollRaises(valsShape[2], gpSampleRate) # "none"
            THEN /\ gpPc' = RollRaises(valsShape[2], gpSampleRate)
                 /\ UNCHANGED <<valsShape, order, numRolls, shapeLog>>
            ELSE /\ valsShape' = <<3, NumFrames(valsShape[2], gpSampleRate)>>
                 /\ shapeLog' = Append(shapeLog, valsShape')
                 /\ numRolls' = numRolls + 1
                 /\ order' = order + 1
                 /\ gpPc' = gpPc
       ELSE /\ order' = order + 1
            /\ UNCHANGED <<valsShape, numRolls, shapeLog, gpPc>>
    /\ UNCHANGED <<gpSampleRate, gpSignalsShape>>
    /\ UNCHANGED <<mainVars, patternVars, scoreVars>>

\* getPattern, line 90
getPatternReturn ==
    /\ gpPc = "loop"
    /\ order = NUM_ORDERS
    /\ gpPc' = "returned"
    /\ UNCHANGED <<gpSampleRate, gpSignalsShape, valsShape, order, patternCols,
                   numRolls, shapeLog>>
    /\ UNCHANGED <<mainVars, patternVars, scoreVars>>

ShapeNext ==
    \/ getPatternEnter
    \/ getPatternOrder
    \/ getPatternReturn

SpecShape == ShapeInit /\ [][ShapeNext]_vars


----------------------------------------------------------------------------
(* Numbers: a number is [nan |-> FALSE, v |-> integer]; NaN has nan TRUE.  *)

Num(x) == [nan |-> FALSE, v |-> x]

NaN == [nan |-> TRUE, v |-> 0]

Abs(x) == IF x < 0 THEN -x ELSE x

Sign(x) == IF x < 0 THEN -1 ELSE IF x > 0 THEN 1 ELSE 0

RECURSIVE SqrtSearch(_, _, _)
\* the least r in lo..hi with r * r >= n
SqrtSearch(n, lo, hi) ==
    IF lo >= hi THEN lo
    ELSE LET mid == (lo + hi) \div 2
         IN  IF mid * mid >= n THEN SqrtSearch(n, lo, mid)
             ELSE SqrtSearch(n, mid + 1, hi)

\* the square root of n rounded up, for 0 <= n <= 46340^2
CeilSqrt(n) == SqrtSearch(n, 0, 46340)

\* the square root of n rounded down
FloorSqrt(n) == CeilSqrt(n + 1) - 1

----------------------------------------------------------------------------
(* SpecPattern: getPattern on sample values.                               *)

RECURSIVE SumProd(_, _, _, _)
\* the sum over the first n pairs of ps of component a times component b
SumProd(ps, a, b, n) ==
    IF n = 0 THEN 0 ELSE ps[n][a] * ps[n][b] + SumProd(ps, a, b, n - 1)

RECURSIVE SumOf(_, _, _)
\* the sum over the first n pairs of ps of component a
SumOf(ps, a, n) == IF n = 0 THEN 0 ELSE ps[n][a] + SumOf(ps, a, n - 1)

\* the observations of x and y at the positions where neither is NaN
Observations(x, y) ==
    LET both == SelectSeq([i \in 1..Len(x) |-> <<x[i], y[i]>>],
                          LAMBDA p : ~p[1].nan /\ ~p[2].nan)
    IN  [i \in 1..Len(both) |-> <<both[i][1].v, both[i][2].v>>]

\* n times the sum of products minus the product of sums: n^2 times the
\* covariance of components a and b of the pairs ps
Moment(ps, a, b) ==
    Len(ps) * SumProd(ps, a, b, Len(ps)) - SumOf(ps, a, Len(ps)) * SumOf(ps, b, Len(ps))

\* Pearson with the covariance divided by the variance of x alone
Pearson_Slope(x, y) ==
    LET ps == Observations(x, y)
        sxx == Moment(ps, 1, 1)
        syy == Moment(ps, 2, 2)
        sxy == Moment(ps, 1, 2)
    IN  IF Len(ps) < 1 THEN NaN
        ELSE IF sxx = 0 \/ syy = 0 THEN NaN
        ELSE Num(Sign(sxy) * ((Abs(sxy) * Scale) \div sxx))

\* the Pearson correlation coefficient of two series, as DataFrame.corr
\* computes one entry: over the positions where both are numbers
\* (min_periods = 1), NaN when there is none or when a variance is zero;
\* truncated to a multiple of 1 / Scale
Pearson(x, y) ==
    LET ps == Observations(x, y)
        sxx == Moment(ps, 1, 1)
        syy == Moment(ps, 2, 2)
        sxy == Moment(ps, 1, 2)
    IN  IF Len(ps) < 1 THEN NaN
        ELSE IF sxx = 0 \/ syy = 0 THEN NaN
        ELSE Num(Sign(sxy) * ((Abs(sxy) * Scale) \div CeilSqrt(sxx * syy)))

HasNaN(x) == \E i \in 1..Len(x) : x[i].nan

\* one pair's column of vals_rw.corr(): at row i the correlation over rows
\* i - window + 1 .. i, NaN while fewer than window rows are there
\* (min_periods = window) or when the window holds a NaN
RollingCorr(x, y, window) ==
    [i \in 1..Len(x) |->
        IF i < window THEN NaN
        ELSE LET wx == SubSeq(x, i - window + 1, i)
                 wy == SubSeq(y, i - window + 1, i)
             IN  IF HasNaN(wx) \/ HasNaN(wy) THEN NaN ELSE Pearson(wx, wy)]

\* the pair convention with the second and third pairs exchanged
PairOf_ACBeforeBC(row) == IF row = 1 THEN <<1, 2>> ELSE IF row = 2 THEN <<1, 3>> ELSE <<2, 3>>

\* lines 73-75 and 84-86: row 0 is the pair (0, 1), row 1 the pair (1, 2),
\* row 2 the pair (0, 2); rows and channels are numbered from 1 here
PairOf(row) == IF row = 1 THEN <<1, 2>> ELSE IF row = 2 THEN <<2, 3>> ELSE <<1, 3>>

\* lines 71-75: the column of pattern for the series v
WholeSeriesColumn(v) ==
    [row \in 1..3 |-> Pearson(v[PairOf(row)[1]], v[PairOf(row)[2]])]

\* lines 83-86: a row of vals_next, numFrames entries assigned from the
\* slice [-numFrames:] of column c (a slice of one entry is broadcast)
AssignSlice(c, numFrames) ==
    LET n == SliceLen(Len(c), numFrames)
        slice == SubSeq(c, Len(c) - n + 1, Len(c))
    IN  [k \in 1..numFrames |-> IF n = 1 THEN slice[1] ELSE slice[k]]

\* lines 79-86: vals_next
RollingSeries(v, sampleRate) ==
    [row \in 1..3 |->
        AssignSlice(RollingCorr(v[PairOf(row)[1]], v[PairOf(row)[2]], sampleRate),
                    NumFrames(Len(v[1]), sampleRate))]

\* an input row of n samples
SampleRow(seed, n) ==
    [k \in 1..n |-> Num(((seed \div 3) * k * k + (seed % 3) * k) % (MaxSample + 1))]

\* the signals with the channels in the order C, B, A
ReverseChannels(sig) == <<sig[3], sig[2], sig[1]>>

ZeroPattern == [row \in 1..3 |-> [o \in 1..NUM_ORDERS |-> Num(0)]]

PatternInit ==
    /\ MainIdle
    /\ ShapeIdle
    /\ ScoreIdle
    /\ pvSampleRate \in 2..MaxPatRate
    /\ \E n \in {MaxPatLen - 1, MaxPatLen} :
          pvSignals \in {<<SampleRow(a, n), SampleRow(b, n), SampleRow(c, n)>> :
                            a \in 0..MaxSeed, b \in 0..MaxSeed, c \in 0..MaxSeed}
    /\ vals = <<>>
    /\ pattern = <<>>
    /\ pvOrder = 0
    /\ seriesLog = <<>>
    /\ returned = <<>>
    /\ pvPc = "call"

\* getPattern, lines 65-69
getPatternValuesEnter ==
    /\ pvPc = "call"
    /\ pvPc' = "loop"
    /\ pattern' = ZeroPattern
    /\ vals' = pvSignals
    /\ seriesLog' = <<pvSignals>>
    /\ pvOrder' = 0
    /\ UNCHANGED <<pvSampleRate, pvSignals, returned>>
    /\ UNCHANGED <<mainVars, shapeVars, scoreVars>>

\* getPattern, lines 70-88: one iteration of the loop
getPatternValuesOrder ==
    /\ pvPc = "loop"
    /\ pvOrder < NUM_ORDERS
    /\ pattern' = [row \in 1..3 |->
                     [pattern[row] EXCEPT ![pvOrder + 1] = WholeSeriesColumn(vals)[row]]]
    /\ IF pvOrder # NUM_ORDERS - 1
       THEN IF RollRaises(Len(vals[1]), pvSampleRate) # "none"
            THEN /\ pvPc' = RollRaises(Len(vals[1]), pvSampleRate)
                 /\ UNCHANGED <<vals, pvOrder, seriesLog>>
            ELSE /\ vals' = RollingSeries(vals, pvSampleRate)
                 /\ seriesLog' = Append(seriesLog, vals')
                 /\ pvOrder' = pvOrder + 1
                 /\ pvPc' = pvPc
       ELSE /\ pvOrder' = pvOrder + 1
            /\ UNCHANGED <<vals, seriesLog, pvPc>>
    /\ UNCHANGED <<pvSampleRate, pvSignals, returned>>
    /\ UNCHANGED <<mainVars, shapeVars, scoreVars>>

\* getPattern, line 90
getPatternValuesReturn ==
    /\ pvPc = "loop"
    /\ pvOrder = NUM_ORDERS
    /\ pvPc' = "returned"
    /\ returned' = Append(returned, pattern)
    /\ UNCHANGED <<pvSampleRate, pvSignals, vals, pattern, pvOrder, seriesLog>>
    /\ UNCHANGED <<mainVars, shapeVars, scoreVars>>

\* a second call, on the same signals with channels A and C reversed
getPatternValuesReversed ==
    /\ pvPc = "returned"
    /\ Len(returned) = 1
    /\ pvSignals' = ReverseChannels(pvSignals)
    /\ pvPc' = "call"
    /\ UNCHANGED <<pvSampleRate, vals, pattern, pvOrder, seriesLog, returned>>
    /\ UNCHANGED <<mainVars, shapeVars, scoreVars>>

PatternNext ==
    \/ getPatternValuesEnter
    \/ getPatternValuesOrder
    \/ getPatternValuesReturn
    \/ getPatternValuesReversed

SpecPattern == PatternInit /\ [][PatternNext]_vars


----------------------------------------------------------------------------
(* SpecScore: getNormalizedVector, getMatchScore, loadReferencePatterns    *)
(* and the lines of genPatternAndScore that follow getPattern.             *)

\* line 94: np.diff(vec), the first difference along each row; a fresh array
Diff(vec) ==
    [r \in 1..Len(vec) |->
        [c \in 1..Len(vec[r]) - 1 |->
            IF vec[r][c].nan \/ vec[r][c + 1].nan THEN NaN
            ELSE Num(vec[r][c + 1].v - vec[r][c].v)]]

\* column col of the matrix m, a sequence of rows
Column(m, col) == [r \in 1..Len(m) |-> m[r][col]]

\* the square of the sum of the absolute values
NormSquared_L1(d) == (Abs(d[1].v) + Abs(d[2].v) + Abs(d[3].v))
                        * (Abs(d[1].v) + Abs(d[2].v) + Abs(d[3].v))

\* line 98: the square of np.linalg.norm of a column of three numbers
NormSquared(d) == d[1].v * d[1].v + d[2].v * d[2].v + d[3].v * d[3].v

\* a zero norm leaving the column at its initial zeros
DivideByNorm_ZeroSafe(d) ==
    IF HasNaN(d) THEN [r \in 1..3 |-> NaN]
    ELSE IF NormSquared(d) = 0 THEN [r \in 1..3 |-> Num(0)]
    ELSE [r \in 1..3 |->
            Num(Sign(d[r].v)
                * FloorSqrt((d[r].v * d[r].v * VecScale * VecScale) \div NormSquared(d)))]

\* line 98: a column divided by its norm. A NaN in the column makes the norm
\* and so every quotient NaN; a zero norm is a column of zeros, and 0 / 0 is
\* NaN (numpy warns and does not raise). Quotients are truncated to
\* multiples of 1 / VecScale.
DivideByNorm(d) ==
    IF HasNaN(d) THEN [r \in 1..3 |-> NaN]
    ELSE IF NormSquared(d) = 0 THEN [r \in 1..3 |-> NaN]
    ELSE [r \in 1..3 |->
            Num(Sign(d[r].v)
                * FloorSqrt((d[r].v * d[r].v * VecScale * VecScale) \div NormSquared(d)))]

\* lines 93-100: the matrix getNormalizedVector returns, and vec as the call
\* leaves it
getNormalizedVector(vec) ==
    LET diffVector == Diff(vec)
        numCols == Len(diffVector[1])
    IN  [normalizedVector |->
            [r \in 1..3 |->
                [col \in 1..numCols |-> DivideByNorm(Column(diffVector, col))[r]]],
         vec |-> vec]

\* line 107: np.dot of two columns, NaN when a component is
Dot(a, b) ==
    IF HasNaN(a) \/ HasNaN(b) THEN NaN
    ELSE Num(a[1].v * b[1].v + a[2].v * b[2].v + a[3].v * b[3].v)

\* matchScore += x
Add(s, x) == IF s.nan \/ x.nan THEN NaN ELSE Num(s.v + x.v)

RECURSIVE MatchScoreUpTo(_, _, _)
\* lines 104-107: matchScore after the first n columns
MatchScoreUpTo(vec1, vec2, n) ==
    IF n = 0 THEN Num(0)
    ELSE Add(MatchScoreUpTo(vec1, vec2, n - 1), Dot(Column(vec1, n), Column(vec2, n)))

\* getMatchScore leaving out the last column
getMatchScore_OneColumnShort(vec1, vec2) ==
    MatchScoreUpTo(vec1, vec2, Len(vec1[1]) - 1)

\* lines 103-109: numCols is vec1.shape[1]
getMatchScore(vec1, vec2) == MatchScoreUpTo(vec1, vec2, Len(vec1[1]))

\* three sample columns of correlations, in units of 1 / Scale
BaseCols == << <<8, -4, 12>>, <<-3, 10, 5>>, <<0, -16, 7>> >>

RECURSIVE Digit(_, _)
\* digit o (from 1, least significant first) of seed in base Len(BaseCols)
Digit(seed, o) ==
    IF o = 1 THEN seed % Len(BaseCols) ELSE Digit(seed \div Len(BaseCols), o - 1)

\* a 3 x numCols pattern: column o is the sample column picked by digit o of
\* the seed, shifted by o; equal neighbours give a zero difference
PatternOf(seed, numCols) ==
    [r \in 1..3 |->
        [o \in 1..numCols |->
            Num(BaseCols[((Digit(seed, o) + o) % Len(BaseCols)) + 1][r])]]

ScoreInit ==
    /\ MainIdle
    /\ ShapeIdle
    /\ PatternIdle
    /\ \E k \in {NUM_ORDERS, NUM_ORDERS + 1} :
          refPatterns \in {<<PatternOf(a, k), PatternOf(b, k), PatternOf(c, k)>> :
                              a \in 0..MaxRefSeed, b \in 0..MaxRefSeed, c \in 0..MaxRefSeed}
    /\ gsPattern \in {PatternOf(q, NUM_ORDERS) : q \in 0..MaxQuerySeed}
    /\ patternArg = gsPattern
    /\ gsReferenceVecs = <<>>
    /\ patternVec = <<>>
    /\ scores = <<>>
    /\ refVecIdx = 0
    /\ gsPc = "load"

\* loadReferencePatterns, lines 113-119
loadReferencePatternsValues ==
    /\ gsPc = "load"
    /\ gsReferenceVecs' = [i \in 1..3 |-> getNormalizedVector(refPatterns[i]).normalizedVector]
    /\ refPatterns' = [i \in 1..3 |-> getNormalizedVector(refPatterns[i]).vec]
    /\ gsPc' = "normalize"
    /\ UNCHANGED <<gsPattern, patternArg, patternVec, scores, refVecIdx>>
    /\ UNCHANGED <<mainVars, shapeVars, patternVars>>

\* genPatternAndScore, lines 127-128
genPatternAndScoreNormalize ==
    /\ gsPc = "normalize"
    /\ patternVec' = getNormalizedVector(gsPattern).normalizedVector
    /\ gsPattern' = getNormalizedVector(gsPattern).vec
    /\ scores' = [i \in 1..3 |-> Num(0)]
    /\ refVecIdx' = 0
    /\ gsPc' = "score"
    /\ UNCHANGED <<refPatterns, gsReferenceVecs, patternArg>>
    /\ UNCHANGED <<mainVars, shapeVars, patternVars>>

\* genPatternAndScore, lines 129-130: one iteration of the loop
genPatternAndScoreScore ==
    /\ gsPc = "score"
    /\ refVecIdx < Len(gsReferenceVecs)
    /\ scores' = [scores EXCEPT ![refVecIdx + 1] =
                     getMatchScore(patternVec, gsReferenceVecs[refVecIdx + 1])]
    /\ refVecIdx' = refVecIdx + 1
    /\ UNCHANGED <<refPatterns, gsReferenceVecs, gsPattern, patternArg, patternVec, gsPc>>
    /\ UNCHANGED <<mainVars, shapeVars, patternVars>>

\* genPatternAndScore, line 132
genPatternAndScoreReturn ==
    /\ gsPc = "score"
    /\ refVecIdx = Len(gsReferenceVecs)
    /\ gsPc' = "returned"
    /\ UNCHANGED <<refPatterns, gsReferenceVecs, gsPattern, patternArg, patternVec,
                   scores, refVecIdx>>
    /\ UNCHANGED <<mainVars, shapeVars, patternVars>>

ScoreNext ==
    \/ loadReferencePatternsValues
    \/ genPatternAndScoreNormalize
    \/ genPatternAndScoreScore
    \/ genPatternAndScoreReturn

SpecScore == ScoreInit /\ [][ScoreNext]_vars


----------------------------------------------------------------------------
(* Claims checked under SpecMain.                                          *)

Returned == pc = "idle" /\ trace # <<>>

ShapeMismatch ==
    \/ args.inputFile.rows # 3
    \/ args.inputFile.cols # args.samplingRate * EEG_DURATION_SECS

InTrace(fn) == \E i \in 1..Len(trace) : trace[i] = fn

PrintedPattern == \E i \in 1..Len(out) : out[i] = <<"rdFC Pattern:">>

PrintedShapeError ==
    \E i \in 1..Len(out) : out[i] \in {<<"Error: rows">>, <<"Error: samples">>}

\* C1: every loaded input grid whose row count is not 3 or whose per-row
\* sample count is not sampleRate * 300 ends the run with a reported shape
\* error and a normal return: no exception, no filtering, no pattern output.
C1_ShapeErrorReported ==
    (signals # NoSignals /\ ShapeMismatch) =>
        /\ raised = "none"
        /\ ~InTrace("filterSignalList")
        /\ ~InTrace("genPatternAndScore")
        /\ ~PrintedPattern
        /\ (Returned => PrintedShapeError)

FromMain == trace # <<>> /\ trace[1] = "main"

\* C2: main rejects a notch frequency other than 50 or 60 before anything
\* else happens (processTriplet is not entered, nothing is loaded or
\* filtered, NOTCH_FREQUENCY keeps its previous value, only the error is
\* printed); for 50 or 60 NOTCH_FREQUENCY is the argument from the check on,
\* so before and during any filtering.
C2_NotchCheckedFirst ==
    /\ (FromMain /\ pc = "main") =>
          /\ trace = <<"main">>
          /\ out = <<>>
          /\ NOTCH_FREQUENCY = notchAtEntry
    /\ (FromMain /\ pc # "main" /\ args.notchFrequency \notin {50, 60}) =>
          /\ pc = "idle"
          /\ trace = <<"main">>
          /\ NOTCH_FREQUENCY = notchAtEntry
          /\ out = <<<<"Error: notch frequency">>>>
          /\ signals = NoSignals
          /\ referenceVecs = <<>>
          /\ result = NoResult
          /\ raised = "none"
    /\ (FromMain /\ pc # "main" /\ args.notchFrequency \in {50, 60}) =>
          /\ NOTCH_FREQUENCY = args.notchFrequency
          /\ (result # NoResult =>
                result.pattern[2].notch
                    = NotchDesign(args.notchFrequency, args.samplingRate))

\* C2 witness: a rejected invocation that followed one which had set the
\* global to 60.
C2_Witness ==
    /\ FromMain
    /\ pc = "idle"
    /\ args.notchFrequency = 55
    /\ notchAtEntry = 60
    /\ NOTCH_FREQUENCY = 60

SameArguments(r1, r2) ==
    /\ r1.signals = r2.signals
    /\ r1.sampleRate = r2.sampleRate
    /\ r1.referenceVecs = r2.referenceVecs

LeavesArgumentsAlone(r) ==
    /\ r.signalsAfter = r.signals
    /\ r.referenceVecsAfter = r.referenceVecs

----------------------------------------------------------------------------
(* Claims checked under SpecShape.                                         *)

\* C3: the series of order o+1 has 3 rows and (columns of order o) -
\* sampleRate + 1 columns, the rolling step runs NUM_ORDERS - 1 times, and
\* an input of sampleRate * 300 columns leaves at least 2 columns at the
\* last order, so the call returns.
C3_SeriesLengths ==
    /\ \A o \in 1..Len(shapeLog) - 1 :
          shapeLog[o + 1] = <<3, shapeLog[o][2] - gpSampleRate + 1>>
    /\ (gpPc = "returned" =>
          /\ numRolls = NUM_ORDERS - 1
          /\ Len(shapeLog) = NUM_ORDERS
          /\ patternCols = NUM_ORDERS)
    /\ (gpSignalsShape = <<3, gpSampleRate * EEG_DURATION_SECS>> =>
          /\ gpPc \in {"call", "loop", "returned"}
          /\ (Len(shapeLog) = NUM_ORDERS => shapeLog[NUM_ORDERS][2] >= 2))

\* C3 witness: a full-length input at the largest rate has gone through all
\* the orders.
C3_Witness ==
    /\ gpPc = "returned"
    /\ gpSampleRate = MaxRate
    /\ gpSignalsShape = <<3, gpSampleRate * EEG_DURATION_SECS>>
    /\ valsShape[2] < gpSignalsShape[2]

\* C10: whenever the series at some order o < NUM_ORDERS-1 has fewer columns
\* than sampleRate, the call raises at that order's rolling step: no later
\* order begins and no pattern is returned.
C10_ShortSeriesRaises ==
    \A o \in 1..Len(shapeLog) :
        (o - 1 < NUM_ORDERS - 1 /\ shapeLog[o][2] < gpSampleRate) =>
            /\ gpPc # "returned"
            /\ Len(shapeLog) = o

----------------------------------------------------------------------------
(* Claims checked under SpecPattern.                                       *)

BothReturned == pvPc = "returned" /\ Len(returned) = 2

\* column o of the second pattern is column o of the first with rows a and
\* b exchanged
RowsExchanged(o, a, b) ==
    LET other(r) == IF r = a THEN b ELSE IF r = b THEN a ELSE r
    IN  \A r \in 1..3 : returned[2][r][o] = returned[1][other(r)][o]

\* C4 as claimed: with channels A and C reversed, every column of the
\* pattern is the original column with the A-B and B-C rows exchanged and
\* the A-C row unchanged.
C4_ReversalExchangesABandBC ==
    BothReturned => \A o \in 1..NUM_ORDERS : RowsExchanged(o, 1, 2)

\* C4 amended: with channels A and C reversed, column o (0-based) of the
\* pattern is the original column with two rows exchanged, which two
\* depending on o mod 3: A-B and B-C for o = 0, 3 (A-C unchanged), B-C and
\* A-C for o = 1, 4 (A-B unchanged), A-B and A-C for o = 2 (B-C unchanged).
C4_ReversalExchangesByOrder ==
    BothReturned =>
        \A o \in 1..NUM_ORDERS :
            CASE (o - 1) % 3 = 0 -> RowsExchanged(o, 1, 2)
              [] (o - 1) % 3 = 1 -> RowsExchanged(o, 2, 3)
              [] (o - 1) % 3 = 2 -> RowsExchanged(o, 1, 3)

NoNaNIn(p) == \A r \in 1..3 : ~HasNaN(p[r])

\* C4 witness: both calls have returned patterns without NaN, and the three
\* rows differ in columns 0 and 1, so that an exchange of rows shows.
C4_Witness ==
    /\ BothReturned
    /\ NoNaNIn(returned[1])
    /\ NoNaNIn(returned[2])
    /\ \A o \in 1..2 : Cardinality({returned[1][r][o] : r \in 1..3}) = 3

\* no series of any order has a NaN or is constant (zero variance)
NonDegenerate ==
    /\ Len(seriesLog) = NUM_ORDERS
    /\ \A o \in 1..NUM_ORDERS : \A r \in 1..3 :
          /\ ~HasNaN(seriesLog[o][r])
          /\ \E j, k \in 1..Len(seriesLog[o][r]) : seriesLog[o][r][j] # seriesLog[o][r][k]

\* C5: for a 3-row input with no zero-variance series at any order,
\* getPattern returns a 3 x NUM_ORDERS matrix whose entries all lie in
\* [-1, 1] and whose column o holds the correlations of the whole order-o
\* series, pair by pair.
C5_PatternEntries ==
    (pvPc = "returned" /\ NonDegenerate) =>
        /\ Len(pattern) = 3
        /\ \A r \in 1..3 :
              /\ Len(pattern[r]) = NUM_ORDERS
              /\ \A o \in 1..NUM_ORDERS :
                    /\ ~pattern[r][o].nan
                    /\ pattern[r][o].v >= -Scale
                    /\ pattern[r][o].v <= Scale
                    /\ pattern[r][o] =
                          Pearson(seriesLog[o][PairOf(r)[1]], seriesLog[o][PairOf(r)[2]])

\* C5 witness: a call on a non-degenerate input has returned, with rolling
\* windows of 3 samples.
C5_Witness ==
    /\ pvPc = "returned"
    /\ NonDegenerate
    /\ pvSampleRate = 3
    /\ pattern[1][1] # pattern[1][2]

----------------------------------------------------------------------------
(* Claims checked under SpecScore.                                         *)

\* the rounding allowed on the squared norm of a unit column: each of its
\* three components is truncated by less than 1 / VecScale
UnitTol == 4 * VecScale

\* the integer difference of columns c + 1 and c of row r of m
DiffAt(m, r, c) == m[r][c + 1].v - m[r][c].v

SumSq3(f) == f[1] * f[1] + f[2] * f[2] + f[3] * f[3]

\* v is m's first difference with every non-zero column divided by its L2
\* norm: one column fewer, each component the quotient truncated, and the
\* column of unit norm within UnitTol
NormalizedFrom(m, v) ==
    /\ Len(v) = 3
    /\ \A r \in 1..3 : Len(v[r]) = Len(m[r]) - 1
    /\ \A c \in 1..Len(m[1]) - 1 :
          LET d == [r \in 1..3 |-> DiffAt(m, r, c)]
              n2 == SumSq3(d)
          IN  n2 # 0 =>
                /\ \A r \in 1..3 :
                      /\ ~v[r][c].nan
                      /\ v[r][c].v * d[r] >= 0
                      /\ v[r][c].v * v[r][c].v <= (d[r] * d[r] * VecScale * VecScale) \div n2
                      /\ (d[r] * d[r] * VecScale * VecScale) \div n2
                            < (Abs(v[r][c].v) + 1) * (Abs(v[r][c].v) + 1)
                /\ SumSq3([r \in 1..3 |-> v[r][c].v]) <= VecScale * VecScale
                /\ SumSq3([r \in 1..3 |-> v[r][c].v]) >= VecScale * VecScale - UnitTol

\* C6: getNormalizedVector returns, for a 3 x K matrix, the 3 x (K-1) matrix
\* whose column i is (column i+1 - column i) divided by its L2 norm, of unit
\* norm when the difference is not zero, and leaves its input unchanged.
C6_UnitColumns ==
    /\ (gsPc \in {"normalize", "score", "returned"} =>
          \A i \in 1..3 : NormalizedFrom(refPatterns[i], gsReferenceVecs[i]))
    /\ (gsPc \in {"score", "returned"} =>
          /\ NormalizedFrom(patternArg, patternVec)
          /\ gsPattern = patternArg)

\* C6 witness: the pattern and a 6-column reference pattern have been
\* normalized, and the pattern's differences are all non-zero.
C6_Witness ==
    /\ gsPc = "score"
    /\ Len(refPatterns[1][1]) = NUM_ORDERS + 1
    /\ \A c \in 1..NUM_ORDERS - 1 : \E r \in 1..3 : DiffAt(patternArg, r, c) # 0

NoNaNColumns(v, n) == \A r \in 1..3 : \A c \in 1..n : ~v[r][c].nan

\* the first n columns of v, row by row
FirstColumns(v, n) == [r \in 1..3 |-> SubSeq(v[r], 1, n)]

\* C7: for normalized vectors without a degenerate column the match score
\* lies in [-(K-1), K-1], K-1 the column count, and the score of a vector
\* with itself is NUM_ORDERS - 1 (within the rounding of its components).
C7_ScoreRange ==
    \A i \in 1..refVecIdx :
        LET n == Len(patternVec[1])
        IN  (NoNaNColumns(patternVec, n) /\ NoNaNColumns(gsReferenceVecs[i], n)) =>
                /\ ~scores[i].nan
                /\ scores[i].v <= n * VecScale * VecScale
                /\ scores[i].v >= -(n * VecScale * VecScale)
                /\ (FirstColumns(gsReferenceVecs[i], n) = patternVec =>
                      /\ n = NUM_ORDERS - 1
                      /\ scores[i].v >= (NUM_ORDERS - 1) * (VecScale * VecScale - UnitTol))

\* C7 witness: a non-degenerate pattern has been scored against itself (the
\* first reference is the same pattern) and against a different
\* non-degenerate reference.
C7_Witness ==
    /\ refVecIdx >= 2
    /\ NoNaNColumns(patternVec, NUM_ORDERS - 1)
    /\ gsReferenceVecs[1] = patternVec
    /\ NoNaNColumns(gsReferenceVecs[2], NUM_ORDERS - 1)
    /\ gsReferenceVecs[2] # patternVec

\* the columns of m's first difference that are zero in every row
ZeroDiffCols(m) ==
    {c \in 1..Len(m[1]) - 1 : \A r \in 1..3 : DiffAt(m, r, c) = 0}

\* C8: a first-difference column of zero norm, in the pattern or in a
\* reference pattern, raises nothing: the column of the normalized vector is
\* NaN, every match score computed from it is NaN, and the pattern and three
\* scores are still returned.
C8_ZeroNormIsNaN ==
    /\ (gsPc \in {"normalize", "score", "returned"} =>
          \A i \in 1..3 : \A c \in ZeroDiffCols(refPatterns[i]) : \A r \in 1..3 :
              gsReferenceVecs[i][r][c].nan)
    /\ (gsPc \in {"score", "returned"} =>
          \A c \in ZeroDiffCols(patternArg) : \A r \in 1..3 : patternVec[r][c].nan)
    /\ \A i \in 1..refVecIdx :
          (\/ ZeroDiffCols(patternArg) # {}
           \/ ZeroDiffCols(refPatterns[i]) \cap (1..Len(patternVec[1])) # {})
              => scores[i].nan
    /\ gsPc \in {"load", "normalize", "score", "returned"}
    /\ (gsPc = "returned" =>
          /\ Len(scores) = 3
          /\ refVecIdx = 3
          /\ gsPattern = patternArg)

\* C8 witness: the call has returned for a pattern without a zero
\* difference, scored against a reference with one and a reference without.
C8_Witness ==
    /\ gsPc = "returned"
    /\ ZeroDiffCols(patternArg) = {}
    /\ ZeroDiffCols(refPatterns[1]) \cap (1..NUM_ORDERS - 1) # {}
    /\ scores[1].nan
    /\ ~scores[2].nan

====
